---- MODULE Spec2Model ----
(***************************************************************************)
(* Model of src/game_events.py: the bounded-concurrency fetch-and-assemble *)
(* pipeline.  main() validates the arguments, reads the game identifiers,  *)
(* submits one fetch_game_events call per identifier to a thread pool,     *)
(* collects the futures as they complete, concatenates the frames of the   *)
(* calls that returned and writes the table.                               *)
(*                                                                         *)
(* A nullable value (Python None / a polars null) is a set with at most    *)
(* one element: {} is null, {v} is the value v.                            *)
(***************************************************************************)
EXTENDS Integers, Sequences, FiniteSets, TLC

\* ---------------------------------------------------------------- bounds
NumGames == 2          \* identifiers in the input table
MaxConcurrency == 2    \* largest --concurrent-games tried

AllIds == 1..NumGames

\* ------------------------------------------------------- nullable values
Null == {}
Some(v) == {v}
IsNull(x) == x = {}
Val(x) == CHOOSE v \in x : TRUE

\* ------------------------------------------------- timestamps (line 60)
\* A timestamp text is seconds-part, fraction digits, suffix.  The format
\* "%Y-%m-%dT%H:%M:%S.%3fZ" needs exactly three fraction digits and "Z".
TsGood == [sec |-> "2025-04-01T18:05:00", frac |-> <<1, 2, 3>>, suffix |-> "Z"]
TsNoMillis == [sec |-> "2025-04-01T18:05:00", frac |-> <<>>, suffix |-> "Z"]
TsOffset == [sec |-> "2025-04-01T18:05:00", frac |-> <<1, 2, 3>>, suffix |-> "+00:00"]

Parses(t) == Len(t.frac) = 3 /\ t.suffix = "Z"

to_datetime(t) ==
    [sec |-> t.sec, us |-> (100 * t.frac[1] + 10 * t.frac[2] + t.frac[3]) * 1000]


\* ------------------------------------------- remote documents (line 39)
Event(pitch, start, end, play) ==
    [pitchNumber |-> pitch, startTime |-> start, endTime |-> end, playId |-> play]

Play(index, events) == [atBatIndex |-> Some(index), playEvents |-> events]

Document(id, plays) == [gamePk |-> Some(id), allPlays |-> plays]

NoDocument == [gamePk |-> Null, allPlays |-> <<>>]

\* What the endpoint answers for one identifier.
HttpError == [kind |-> "HTTPError", data |-> NoDocument]
UrlError == [kind |-> "URLError", data |-> NoDocument]
BadJson == [kind |-> "JSONDecodeError", data |-> NoDocument]
Ok(id, plays) == [kind |-> "ok", data |-> Document(id, plays)]

\* ------------------------------------------------ frames (polars tables)
Columns == <<"game_pk", "at_bat_number", "pitch_number", "start_time", "end_time", "play_id">>

EmptyFrame == [columns |-> <<>>, rows |-> <<>>]

Returned(df) == [kind |-> "result", df |-> df, exc |-> ""]
Raised(exc) == [kind |-> "exception", df |-> EmptyFrame, exc |-> exc]
NotDone == [kind |-> "none", df |-> EmptyFrame, exc |-> ""]

\* ------------------------------------- fetch_game_events, lines 31 to 37
\* urlopen + json.load: HTTPError becomes ValueError, URLError becomes
\* ConnectionError, anything else (a body that is not JSON) propagates.
fetch(response) ==
    CASE response.kind = "ok" -> Returned(EmptyFrame)
      [] response.kind = "HTTPError" -> Raised("ValueError")
      [] response.kind = "URLError" -> Raised("ConnectionError")
      [] OTHER -> Raised(response.kind)

\* ------------------------------------- fetch_game_events, lines 39 to 53
CandidateRow(data, play, event) ==
    [game_pk |-> data.gamePk,
     at_bat_number |-> play.atBatIndex,
     pitch_number |-> event.pitchNumber,
     start_time |-> event.startTime,
     end_time |-> event.endTime,
     play_id |-> event.playId]

RECURSIVE PlayRows(_, _, _)
PlayRows(data, play, evs) ==
    IF evs = <<>> THEN <<>>
    ELSE <<CandidateRow(data, play, Head(evs))>> \o PlayRows(data, play, Tail(evs))

RECURSIVE DocRowsLastPlayFirst(_, _)
DocRowsLastPlayFirst(data, plays) ==
    IF plays = <<>> THEN <<>>
    ELSE DocRowsLastPlayFirst(data, Tail(plays)) \o PlayRows(data, Head(plays), Head(plays).playEvents)

RECURSIVE DocRows(_, _)
DocRows(data, plays) ==
    IF plays = <<>> THEN <<>>
    ELSE PlayRows(data, Head(plays), Head(plays).playEvents) \o DocRows(data, Tail(plays))

build_events(data) == DocRows(data, data.allPlays)

\* ------------------------------------- fetch_game_events, lines 55 to 62
\* str.to_datetime is strict: a non-null text that does not parse raises.
Unparseable(events, col) ==
    \E i \in 1..Len(events) : ~IsNull(events[i][col]) /\ ~Parses(Val(events[i][col]))

\* A column holding only nulls has dtype Null, not String.
AllNull(events, col) == \A i \in 1..Len(events) : IsNull(events[i][col])

ParseColumn(x) == IF IsNull(x) THEN Null ELSE Some(to_datetime(Val(x)))

with_columns(row) ==
    [row EXCEPT !.start_time = ParseColumn(row.start_time),
                !.end_time = ParseColumn(row.end_time)]

KeepRow(row) == ~IsNull(row.pitch_number) /\ ~IsNull(row.play_id)

RECURSIVE drop_nulls(_)
drop_nulls(rows) ==
    IF rows = <<>> THEN <<>>
    ELSE (IF KeepRow(Head(rows)) THEN <<Head(rows)>> ELSE <<>>) \o drop_nulls(Tail(rows))

\* nullStrRaises: whether the polars build rejects .str on a Null column.
to_frame(events, nullStrRaises) ==
    IF events = <<>> THEN Returned(EmptyFrame)
    ELSE IF Unparseable(events, "start_time") \/ Unparseable(events, "end_time")
    THEN Raised("InvalidOperationError")
    ELSE IF nullStrRaises /\ (AllNull(events, "start_time") \/ AllNull(events, "end_time"))
    THEN Raised("SchemaError")
    ELSE Returned([columns |-> Columns,
                   rows |-> drop_nulls([i \in 1..Len(events) |-> with_columns(events[i])])])

\* The whole unit of work, as one function of the endpoint's answer.
fetch_game_events(response, nullStrRaises) ==
    IF fetch(response).kind = "exception" THEN fetch(response)
    ELSE to_frame(build_events(response.data), nullStrRaises)

\* ------------------------------------------------- main, lines 132 to 135
RECURSIVE AllRows(_)
AllRows(dfs) == IF dfs = <<>> THEN <<>> ELSE Head(dfs).rows \o AllRows(Tail(dfs))

\* pl.concat(how="vertical_relaxed") casts dtypes to a supertype but needs
\* the same columns in every frame.
SameColumns(dfs) == \A i \in 1..Len(dfs) : dfs[i].columns = dfs[1].columns

concat(dfs) ==
    IF Len(dfs) = 1 THEN Returned(dfs[1])
    ELSE IF SameColumns(dfs) THEN Returned([columns |-> dfs[1].columns, rows |-> AllRows(dfs)])
    ELSE Raised("ComputeError")

assemble(dfs) == IF dfs # <<>> THEN concat(dfs) ELSE Returned(EmptyFrame)


\* ------------------------------------------------ the endpoint's answers
EvOne == Event(Some(1), Some(TsGood), Some(TsGood), Some("abc"))
EvGated == Event(Some(2), Some(TsGood), Some(TsGood), Null)
EvBadTime == Event(Some(1), Some(TsNoMillis), Some(TsGood), Some("abc"))
EvGatedBadTime == Event(Some(2), Some(TsGood), Some(TsOffset), Null)
EvNoPitch == Event(Null, Some(TsGood), Some(TsGood), Some("def"))
EvTwo == Event(Some(2), Some(TsGood), Null, Some("ghi"))

\* Answers tried for identifier id in the pipeline runs.
Feeds(id) ==
    <<HttpError, UrlError,
      Ok(id, <<>>),
      Ok(id, <<Play(0, <<EvOne>>)>>),
      Ok(id, <<Play(0, <<EvGated>>)>>),
      Ok(id, <<Play(0, <<EvOne, EvBadTime>>)>>),
      Ok(id, <<Play(0, <<EvGatedBadTime>>)>>),
      Ok(id, <<Play(0, <<EvOne, EvNoPitch>>), Play(1, <<EvTwo, EvOne>>)>>)>>

\* The endpoint was not asked for the identifier yet.
Unasked == [kind |-> "unasked", data |-> NoDocument]

\* ------------------------------------------------------------ the state
VARIABLES
    pc,              \* where main is
    args,            \* parse_args(): concurrent_games, max_games
    remote,          \* what the endpoint answers, per identifier, once asked
    game_ids,        \* main's game_ids
    next_submit,     \* index of the next identifier of the submission loop
    work_queue,      \* the executor's queue of submitted, not started calls
    num_threads,     \* worker threads the executor has started
    workers,         \* calls executing: identifier -> position and locals
    futures,         \* identifier -> the outcome of its future
    requests,        \* identifiers requested from the endpoint, in order
    reported,        \* identifiers as_completed has yielded, in order
    all_dfs,         \* main's all_dfs
    warnings,        \* identifiers of the "Failed game_id" log lines
    all_events_df,   \* main's all_events_df (null before it is built)
    written,         \* tables handed to write_parquet
    run              \* which invocation of main this is

vars == <<pc, args, remote, game_ids, next_submit, work_queue, num_threads,
          workers, futures, requests, reported, all_dfs, warnings,
          all_events_df, written, run>>

NoLimit == {}

Idle == [phase |-> "none", events |-> <<>>]

\* The calls occupying a pool thread.
RunningNeverReleased ==
    {id \in AllIds : workers[id].phase # "none" \/ futures[id].state = "FINISHED"}
Running == {id \in AllIds : workers[id].phase # "none"}

Reported == {reported[i] : i \in 1..Len(reported)}

\* ------------------------------------------------------ main, line 89
ConfigInvalidNegativeOnly(n) == n < 0
ConfigInvalid(n) == n <= 0

\* ------------------------------------------------ main, lines 92 to 103
\* unique().sort() of the input column, then the [: max_games] slice.
SortedUnique(ids) == [i \in 1..Cardinality(ids) |-> CHOOSE x \in ids : Cardinality({y \in ids : y < x}) = i - 1]

SliceToInclusive(s, n) == SubSeq(s, 1, IF n + 1 < Len(s) THEN n + 1 ELSE Len(s))
SliceTo(s, n) ==
    IF n >= 0 THEN SubSeq(s, 1, IF n < Len(s) THEN n ELSE Len(s))
    ELSE SubSeq(s, 1, IF Len(s) + n > 0 THEN Len(s) + n ELSE 0)

LoadedIds(max_games) ==
    IF IsNull(max_games) THEN SortedUnique(AllIds)
    ELSE SliceTo(SortedUnique(AllIds), Val(max_games))

\* ------------------------------------------------------ main, line 113
max_workers_plus_one(n) == n + 1
max_workers(n) == n

Init ==
    /\ pc = "start"
    /\ args \in [concurrent_games : -1..MaxConcurrency,
                 max_games : {NoLimit} \cup {Some(n) : n \in 0..(NumGames - 1)}]
    /\ remote = [id \in AllIds |-> Unasked]
    /\ game_ids = <<>>
    /\ next_submit = 1
    /\ work_queue = <<>>
    /\ num_threads = 0
    /\ workers = [id \in AllIds |-> Idle]
    /\ futures = [id \in AllIds |-> [state |-> "NONE", outcome |-> NotDone]]
    /\ requests = <<>>
    /\ reported = <<>>
    /\ all_dfs = <<>>
    /\ warnings = <<>>
    /\ all_events_df = Null
    /\ written = <<>>
    /\ run = 1

\* main, lines 89 to 90: the argument check raises.
ConfigError ==
    /\ pc = "start"
    /\ ConfigInvalid(args.concurrent_games)
    /\ pc' = "config_error"
    /\ UNCHANGED <<run, args, remote, game_ids, next_submit, work_queue, num_threads,
                   workers, futures, requests, reported, all_dfs, warnings,
                   all_events_df, written>>

\* main, lines 92 to 113: read the identifiers, create the executor.
LoadIds ==
    /\ pc = "start"
    /\ ~ConfigInvalid(args.concurrent_games)
    /\ game_ids' = LoadedIds(args.max_games)
    /\ pc' = IF Len(game_ids') = 0 THEN "collecting" ELSE "submitting"
    /\ UNCHANGED <<run, args, remote, next_submit, work_queue, num_threads,
                   workers, futures, requests, reported, all_dfs, warnings,
                   all_events_df, written>>

\* The submission loop goes on while identifiers are left; it waits for the
\* stagger only, never for a thread.
SubmitReadyWhenThreadFree ==
    next_submit <= Len(game_ids) /\ Cardinality(Running) + Len(work_queue) < args.concurrent_games
SubmitReady == next_submit <= Len(game_ids)

\* main, lines 115 to 117: submit the next identifier, then sleep.  The
\* executor queues the call and starts a thread while it has fewer than
\* max_workers.
Submit ==
    /\ pc = "submitting"
    /\ SubmitReady
    /\ LET id == game_ids[next_submit] IN
         /\ work_queue' = Append(work_queue, id)
         /\ futures' = [futures EXCEPT ![id].state = "PENDING"]
    /\ num_threads' = IF num_threads < max_workers(args.concurrent_games)
                      THEN num_threads + 1 ELSE num_threads
    /\ next_submit' = next_submit + 1
    /\ pc' = IF next_submit' > Len(game_ids) THEN "collecting" ELSE "submitting"
    /\ UNCHANGED <<run, args, remote, game_ids, workers, requests, reported,
                   all_dfs, warnings, all_events_df, written>>


\* A pool thread takes the oldest queued call and starts it: line 32 sends
\* the request.
WorkerStart ==
    /\ work_queue # <<>>
    /\ Cardinality(Running) < num_threads
    /\ LET id == Head(work_queue) IN
         /\ workers' = [workers EXCEPT ![id] = [phase |-> "urlopen", events |-> <<>>]]
         /\ futures' = [futures EXCEPT ![id].state = "RUNNING"]
         /\ requests' = Append(requests, id)
    /\ work_queue' = Tail(work_queue)
    /\ UNCHANGED <<run, pc, args, remote, game_ids, next_submit, num_threads,
                   reported, all_dfs, warnings, all_events_df, written>>

\* fetch_game_events, lines 31 to 53: the request returns; either the call
\* raises or the candidate rows are built.  The endpoint's answer for an
\* identifier is decided when it is first asked.
Answers(id) ==
    IF remote[id] = Unasked THEN {Feeds(id)[k] : k \in 1..Len(Feeds(id))} ELSE {remote[id]}

WorkerFetch(id) ==
    /\ workers[id].phase = "urlopen"
    /\ \E response \in Answers(id) :
         /\ remote' = [remote EXCEPT ![id] = response]
         /\ IF fetch(response).kind = "exception"
            THEN /\ workers' = [workers EXCEPT ![id] = Idle]
                 /\ futures' = [futures EXCEPT ![id] = [state |-> "FINISHED", outcome |-> fetch(response)]]
            ELSE /\ workers' = [workers EXCEPT ![id] = [phase |-> "frame", events |-> build_events(response.data)]]
                 /\ UNCHANGED futures
    /\ UNCHANGED <<run, pc, args, game_ids, next_submit, work_queue, num_threads,
                   requests, reported, all_dfs, warnings, all_events_df, written>>

WorkerFrameAppending(id) ==
    /\ workers[id].phase = "frame"
    /\ \E nullStrRaises \in BOOLEAN :
         /\ futures' = [futures EXCEPT ![id] = [state |-> "FINISHED",
                                                outcome |-> to_frame(workers[id].events, nullStrRaises)]]
         /\ all_dfs' = IF to_frame(workers[id].events, nullStrRaises).kind = "result"
                       THEN Append(all_dfs, to_frame(workers[id].events, nullStrRaises).df)
                       ELSE all_dfs
    /\ workers' = [workers EXCEPT ![id] = Idle]
    /\ UNCHANGED <<run, pc, args, remote, game_ids, next_submit, work_queue, num_threads,
                   requests, reported, warnings, all_events_df, written>>

\* fetch_game_events, lines 55 to 62: the frame is built and returned, or
\* polars raises; the future is done and the thread is free again.
WorkerFrame(id) ==
    /\ workers[id].phase = "frame"
    /\ \E nullStrRaises \in BOOLEAN :
         futures' = [futures EXCEPT ![id] = [state |-> "FINISHED",
                                             outcome |-> to_frame(workers[id].events, nullStrRaises)]]
    /\ workers' = [workers EXCEPT ![id] = Idle]
    /\ UNCHANGED <<run, pc, args, remote, game_ids, next_submit, work_queue, num_threads,
                   requests, reported, all_dfs, warnings, all_events_df, written>>

\* ------------------------------------------------ main, lines 119 to 130
\* "except Exception" catches every exception class raised by a call.
ExceptionClasses == {"ValueError", "ConnectionError", "JSONDecodeError",
                     "InvalidOperationError", "SchemaError", "ComputeError"}

CaughtOnlyValueError(exc) == exc = "ValueError"
Caught(exc) == exc \in ExceptionClasses

AppendReplacing(dfs, id, outcome) ==
    IF outcome.kind = "result" THEN <<outcome.df>> ELSE dfs
AppendAlways(dfs, id, outcome) ==
    Append(dfs, [columns |-> Columns, rows |-> build_events(remote[id].data)])
AppendResult(dfs, id, outcome) ==
    IF outcome.kind = "result" THEN Append(dfs, outcome.df) ELSE dfs

LogNothing(log, id, outcome) == log
LogFailure(log, id, outcome) ==
    IF outcome.kind = "exception" /\ Caught(outcome.exc) THEN Append(log, id) ELSE log

\* as_completed yields a finished future not yet yielded; the body of the
\* loop appends its frame or logs its failure.
Collect(id) ==
    /\ pc = "collecting"
    /\ futures[id].state = "FINISHED"
    /\ id \notin Reported
    /\ reported' = Append(reported, id)
    /\ all_dfs' = AppendResult(all_dfs, id, futures[id].outcome)
    /\ warnings' = LogFailure(warnings, id, futures[id].outcome)
    /\ pc' = IF futures[id].outcome.kind = "exception" /\ ~Caught(futures[id].outcome.exc)
             THEN "uncaught_error" ELSE "collecting"
    /\ UNCHANGED <<run, args, remote, game_ids, next_submit, work_queue, num_threads,
                   workers, futures, requests, all_events_df, written>>

\* The loop over as_completed ends when every submitted future was yielded.
LoopEndsEarly == Len(reported) >= 1 \/ Len(game_ids) = 0
LoopEnds == Len(reported) = Len(game_ids)

\* main, lines 132 to 142: every future was yielded; build the table.
Assemble ==
    /\ pc = "collecting"
    /\ LoopEnds
    /\ IF assemble(all_dfs).kind = "result"
       THEN /\ all_events_df' = Some(assemble(all_dfs).df)
            /\ pc' = "assembled"
       ELSE /\ pc' = "concat_error"
            /\ UNCHANGED all_events_df
    /\ UNCHANGED <<run, args, remote, game_ids, next_submit, work_queue, num_threads,
                   workers, futures, requests, reported, all_dfs, warnings, written>>

\* main, lines 144 to 147: hand the table to write_parquet.
Save ==
    /\ pc = "assembled"
    /\ written' = Append(written, Val(all_events_df))
    /\ pc' = "saved"
    /\ UNCHANGED <<run, args, remote, game_ids, next_submit, work_queue, num_threads,
                   workers, futures, requests, reported, all_dfs, warnings,
                   all_events_df>>

\* ------------------------------------------ one identifier, any document
MaxPlays == 2        \* plays in a document
MaxDocEvents == 2    \* events in a document, over all its plays

EventSpace ==
    {Event(p, s, e, q) : p \in {Null, Some(1)},
                         s \in {Null, Some(TsGood), Some(TsNoMillis)},
                         e \in {Some(TsGood), Some(TsOffset)},
                         q \in {Null, Some("abc")}}

RECURSIVE SumTo(_, _)
SumTo(lens, n) == IF n = 0 THEN 0 ELSE lens[n] + SumTo(lens, n - 1)

\* The ways to spread at most MaxDocEvents events over at most MaxPlays plays.
Shapes ==
    UNION {{lens \in [1..n -> 0..MaxDocEvents] : SumTo(lens, n) <= MaxDocEvents} : n \in 0..MaxPlays}

SplitPlays(lens, evs) ==
    [i \in 1..Len(lens) |-> Play(i - 1, SubSeq(evs, SumTo(lens, i - 1) + 1, SumTo(lens, i)))]

\* A run over the single identifier 1 whose document is any document of
\* the bounded shape.
FlatInit ==
    /\ pc = "start"
    /\ args \in [concurrent_games : 0..1, max_games : {Some(1)}]
    /\ \E lens \in Shapes : \E evs \in [1..SumTo(lens, Len(lens)) -> EventSpace] :
         remote = [id \in AllIds |-> IF id = 1 THEN Ok(1, SplitPlays(lens, evs)) ELSE Unasked]
    /\ game_ids = <<>>
    /\ next_submit = 1
    /\ work_queue = <<>>
    /\ num_threads = 0
    /\ workers = [id \in AllIds |-> Idle]
    /\ futures = [id \in AllIds |-> [state |-> "NONE", outcome |-> NotDone]]
    /\ requests = <<>>
    /\ reported = <<>>
    /\ all_dfs = <<>>
    /\ warnings = <<>>
    /\ all_events_df = Null
    /\ written = <<>>
    /\ run = 1

Next ==
    \/ ConfigError
    \/ LoadIds
    \/ Submit
    \/ WorkerStart
    \/ \E id \in AllIds : WorkerFetch(id)
    \/ \E id \in AllIds : WorkerFrame(id)
    \/ \E id \in AllIds : Collect(id)
    \/ Assemble
    \/ Save

Spec == Init /\ [][Next]_vars

SpecFlatten == FlatInit /\ [][Next]_vars

\* Threads are scheduled fairly: main takes its next step when it has one,
\* and the pool goes on while a thread can start a queued call or a running
\* call can return or raise.
MainStep ==
    \/ ConfigError
    \/ LoadIds
    \/ Submit
    \/ \E id \in AllIds : Collect(id)
    \/ Assemble
    \/ Save

PoolStep ==
    \/ WorkerStart
    \/ \E id \in AllIds : WorkerFetch(id)
    \/ \E id \in AllIds : WorkerFrame(id)

Fairness == WF_vars(MainStep) /\ WF_vars(PoolStep)

SpecFair == Init /\ [][Next]_vars /\ Fairness

\* ------------------------------------------------ main invoked a second time
\* lines 150 to 151: the program is run again over the same input, with any
\* valid --concurrent-games; the endpoint keeps its answers, every other
\* piece of state of main and of the executor starts afresh.
Rerun ==
    /\ run = 1
    /\ pc \in {"saved", "concat_error"}
    /\ run' = 2
    /\ pc' = "start"
    /\ \E n \in 1..MaxConcurrency : args' = [args EXCEPT !.concurrent_games = n]
    /\ game_ids' = <<>>
    /\ next_submit' = 1
    /\ work_queue' = <<>>
    /\ num_threads' = 0
    /\ workers' = [id \in AllIds |-> Idle]
    /\ futures' = [id \in AllIds |-> [state |-> "NONE", outcome |-> NotDone]]
    /\ requests' = <<>>
    /\ reported' = <<>>
    /\ all_dfs' = <<>>
    /\ warnings' = <<>>
    /\ all_events_df' = Null
    /\ UNCHANGED <<remote, written>>

NextTwice == Next \/ Rerun

SpecTwice == Init /\ [][NextTwice]_vars

\* --------------------------------------------------- derived quantities
IdSet == {game_ids[i] : i \in 1..Len(game_ids)}

Failed == {warnings[i] : i \in 1..Len(warnings)}

Count(s, x) == Cardinality({i \in 1..Len(s) : s[i] = x})

\* main has left the collection loop.
RunCompleted == pc \in {"assembled", "concat_error", "saved"}

Succeeds(id) == futures[id].outcome.kind = "result"

RECURSIVE RowsInOrder(_)
RowsInOrder(ids) ==
    IF ids = <<>> THEN <<>>
    ELSE (IF Succeeds(Head(ids)) THEN futures[Head(ids)].outcome.df.rows ELSE <<>>)
         \o RowsInOrder(Tail(ids))

RowsOfGame(rows, id) == {i \in 1..Len(rows) : rows[i].game_pk = Some(id)}

\* C1: for every --concurrent-games N >= 1, at most N calls of
\* fetch_game_events execute at the same time, in every reachable state.
ConcurrencyBound ==
    args.concurrent_games >= 1 => Cardinality(Running) <= args.concurrent_games

\* Every thread is busy and a submitted call waits in the queue.
ConcurrencyBoundWitness ==
    /\ args.concurrent_games >= 1
    /\ Cardinality(Running) = args.concurrent_games
    /\ work_queue # <<>>

\* C2: once the run has left the collection loop, frames appended plus
\* failures logged equals identifiers submitted, and every identifier is
\* counted exactly once, as a success or as a failure.
TallyComplete ==
    RunCompleted =>
        /\ Len(all_dfs) + Len(warnings) = Len(game_ids)
        /\ next_submit - 1 = Len(game_ids)
        /\ Len(all_dfs) = Cardinality({id \in Reported : Succeeds(id)})
        /\ \A id \in IdSet :
             Count(warnings, id) + (IF id \in Reported /\ Succeeds(id) THEN 1 ELSE 0) = 1

\* A finished run with both successes and failures.
TallyCompleteWitness ==
    /\ pc = "saved"
    /\ Len(game_ids) = NumGames
    /\ Len(warnings) >= 1
    /\ Len(all_dfs) >= 1

\* C3: no row of a game whose call raised is in all_dfs, in the assembled
\* table or in a written table, in any reachable state.
NoFailedRows ==
    \A id \in AllIds :
        (id \in Failed \/ futures[id].outcome.kind = "exception") =>
            /\ RowsOfGame(AllRows(all_dfs), id) = {}
            /\ (~IsNull(all_events_df) => RowsOfGame(Val(all_events_df).rows, id) = {})
            /\ \A i \in 1..Len(written) : RowsOfGame(written[i].rows, id) = {}

\* A call raised after its candidate rows were built, was reported, and the
\* table written holds rows of another game.
NoFailedRowsWitness ==
    /\ pc = "saved"
    /\ \E id \in Failed :
         /\ futures[id].outcome.exc = "InvalidOperationError"
         /\ build_events(remote[id].data) # <<>>
    /\ written # <<>> /\ written[1].rows # <<>>

\* C4: a call that raises is logged as that game's failure and main goes
\* on: no exception leaves the collection loop, every submitted game is
\* requested once, finishes with the outcome its own answer determines and
\* is reported, and a table that is built holds the rows of the games that
\* succeeded, in the order reported.  For game_ids [1, 2] where 1 answers
\* one event (pitchNumber 1, playId "abc") and 2 fails at transport, the
\* table written is that one row, with one failure and one success.
FailureIsolated ==
    /\ pc # "uncaught_error"
    /\ RunCompleted =>
         /\ Reported = IdSet
         /\ Failed = {id \in IdSet : ~Succeeds(id)}
         /\ \A id \in IdSet :
              /\ Count(requests, id) = 1
              /\ futures[id].state = "FINISHED"
              /\ \E b \in BOOLEAN : futures[id].outcome = fetch_game_events(remote[id], b)
    /\ pc \in {"assembled", "saved"} => Val(all_events_df).rows = RowsInOrder(reported)
    /\ (/\ pc = "saved"
        /\ game_ids = <<1, 2>>
        /\ remote[1] = Ok(1, <<Play(0, <<EvOne>>)>>)
        /\ remote[2] = UrlError)
       => /\ Len(written) = 1
          /\ Len(written[1].rows) = 1
          /\ written[1].rows[1].game_pk = Some(1)
          /\ written[1].rows[1].pitch_number = Some(1)
          /\ written[1].rows[1].play_id = Some("abc")
          /\ Len(warnings) = 1
          /\ Len(all_dfs) = 1

\* The run of the scenario has written its table.
FailureIsolatedWitness ==
    /\ pc = "saved"
    /\ game_ids = <<1, 2>>
    /\ remote[1] = Ok(1, <<Play(0, <<EvOne>>)>>)
    /\ remote[2] = UrlError
    /\ warnings = <<2>>

\* C5: with --concurrent-games zero or negative main raises before any
\* work: no identifier is read or submitted, no request is sent, nothing is
\* written.
ConfigRejected ==
    args.concurrent_games <= 0 =>
        /\ pc \in {"start", "config_error"}
        /\ game_ids = <<>>
        /\ next_submit = 1
        /\ work_queue = <<>>
        /\ num_threads = 0
        /\ requests = <<>>
        /\ written = <<>>

\* The argument check has raised for --concurrent-games 0.
ConfigRejectedWitness ==
    /\ pc = "config_error"
    /\ args.concurrent_games = 0

\* C6: for every event of every play of a fetched document, the row of the
\* event is in the table written iff pitchNumber and playId are both
\* non-null in the event, whatever its other fields hold.
InTable(rows, c) ==
    \E j \in 1..Len(rows) :
        /\ rows[j].game_pk = c.game_pk
        /\ rows[j].at_bat_number = c.at_bat_number
        /\ rows[j].pitch_number = c.pitch_number
        /\ rows[j].play_id = c.play_id

RowPresentIffRequired ==
    pc = "saved" =>
        \A id \in IdSet : remote[id].kind = "ok" =>
            \A i \in 1..Len(build_events(remote[id].data)) :
                LET c == build_events(remote[id].data)[i] IN
                    InTable(written[1].rows, c) <=> (c.pitch_number # Null /\ c.play_id # Null)

\* C7: a game whose document has no qualifying event (no plays, no events,
\* or every candidate row dropped by the gate) is a success with no rows,
\* never a failure.
NoQualifying(id) ==
    /\ remote[id].kind = "ok"
    /\ \A i \in 1..Len(build_events(remote[id].data)) :
         LET c == build_events(remote[id].data)[i] IN c.pitch_number = Null \/ c.play_id = Null

EmptyIsSuccess ==
    \A id \in Reported : NoQualifying(id) =>
        /\ id \notin Failed
        /\ Succeeds(id)
        /\ futures[id].outcome.df.rows = <<>>
        /\ Len(all_dfs) = Cardinality({r \in Reported : Succeeds(r)})

\* C8: a start or end time that does not parse is treated as an absent
\* one: the call returns the rows it would return with that time null, and
\* the game is not a failure.
Lenient(x) == IF IsNull(x) \/ ~Parses(Val(x)) THEN Null ELSE Some(to_datetime(Val(x)))

LenientRow(row) ==
    [row EXCEPT !.start_time = Lenient(row.start_time), !.end_time = Lenient(row.end_time)]

RequiredPresent(row) == row.pitch_number # Null /\ row.play_id # Null

HasUnparseable(id) ==
    /\ remote[id].kind = "ok"
    /\ \/ Unparseable(build_events(remote[id].data), "start_time")
       \/ Unparseable(build_events(remote[id].data), "end_time")

UnparseableIsAbsent ==
    \A id \in Reported : HasUnparseable(id) =>
        /\ id \notin Failed
        /\ Succeeds(id)
        /\ LET ev == build_events(remote[id].data) IN
             futures[id].outcome.df.rows =
                 SelectSeq([i \in 1..Len(ev) |-> LenientRow(ev[i])], RequiredPresent)

\* C9: building the table never raises: when the frames of the games that
\* succeeded have different columns (a frame without columns from a game
\* without events among them) the table has the union of the columns and
\* all their rows.
ColumnSet(df) == {df.columns[i] : i \in 1..Len(df.columns)}

AssembleNeverRaises ==
    /\ pc # "concat_error"
    /\ pc \in {"assembled", "saved"} =>
         /\ ColumnSet(Val(all_events_df)) = UNION {ColumnSet(all_dfs[i]) : i \in 1..Len(all_dfs)}
         /\ Len(Val(all_events_df).rows) = Len(AllRows(all_dfs))

\* C10: a run with valid arguments in which every game has reported ends
\* with one table, possibly empty, handed to write_parquet, whatever the
\* mix of successes, failures and empty successes.
Terminated == ~ENABLED Next

CompletedRunWritesTable ==
    (args.concurrent_games >= 1 /\ Terminated) =>
        /\ pc = "saved"
        /\ Len(reported) = Len(game_ids)
        /\ written = <<Val(all_events_df)>>
        /\ (all_dfs = <<>> => written[1].rows = <<>>)

\* C11: two runs over the same identifiers against an endpoint that gives
\* the same answers end alike: the second run writes a table iff the first
\* did, and the two tables hold the same rows the same number of times,
\* whatever the order of completions and the --concurrent-games of each.
CountRow(rows, r) == Cardinality({i \in 1..Len(rows) : rows[i] = r})

SameBag(a, b) ==
    /\ Len(a) = Len(b)
    /\ \A i \in 1..Len(a) : CountRow(a, a[i]) = CountRow(b, a[i])

SecondRunEnded == run = 2 /\ pc \in {"saved", "concat_error"}

RunsAgree ==
    SecondRunEnded =>
        IF pc = "saved"
        THEN Len(written) = 2 /\ SameBag(written[1].rows, written[2].rows)
        ELSE written = <<>>

\* Both runs wrote the same rows, in a different order.
RunsAgreeWitness ==
    /\ SecondRunEnded
    /\ Len(written) = 2
    /\ written[1].rows # written[2].rows
    /\ SameBag(written[1].rows, written[2].rows)

\* C12: every identifier of the input, up to --max-games of them, is
\* requested from the endpoint exactly once by the end of the run, no other
\* identifier is requested, and no identifier is ever requested twice, a
\* failed one included.
Supplied ==
    IF args.max_games = NoLimit THEN AllIds
    ELSE {id \in AllIds : id <= Val(args.max_games)}

OneFetchEach ==
    /\ \A id \in AllIds : Count(requests, id) <= 1
    /\ \A i \in 1..Len(requests) : requests[i] \in Supplied
    /\ RunCompleted => \A id \in Supplied : Count(requests, id) = 1

\* A capped run has ended; the one identifier it kept failed and was asked
\* for once.
OneFetchEachWitness ==
    /\ RunCompleted
    /\ args.max_games # NoLimit
    /\ Supplied # AllIds
    /\ \E id \in Failed : Count(requests, id) = 1

\* C13: the table is handed to write_parquet once, when the run reaches
\* its end, and never before every submitted game has reported: the table
\* written is the one assembled from the results of all the games.
WrittenOnceAfterAll ==
    /\ Len(written) <= 1
    /\ (pc = "saved") <=> (Len(written) = 1)
    /\ written # <<>> =>
         /\ next_submit - 1 = Len(game_ids)
         /\ Reported = IdSet
         /\ Len(reported) = Len(game_ids)
         /\ \A id \in IdSet : futures[id].state = "FINISHED"
         /\ Running = {}
         /\ written[1] = Val(all_events_df)
         /\ written[1].rows = RowsInOrder(reported)

\* A run over every identifier, one of them failed, has written its table.
WrittenOnceAfterAllWitness ==
    /\ pc = "saved"
    /\ Len(written) = 1
    /\ Len(game_ids) = NumGames
    /\ Len(warnings) >= 1

\* C14: when every call returns or raises and threads are scheduled
\* fairly, every submitted game is started by a pool thread, finishes and is
\* reported, and a run with valid arguments leaves the collection loop with
\* every game reported, for every --concurrent-games >= 1.
EveryItemReports ==
    /\ \A id \in AllIds :
         (futures[id].state = "PENDING") ~> (id \in Reported /\ Count(requests, id) = 1)
    /\ (pc = "start" /\ args.concurrent_games >= 1) ~> (RunCompleted /\ Reported = IdSet)

\* A run with more games than threads has ended: a game that had to wait
\* for a thread has reported.
EveryItemReportsWitness ==
    /\ RunCompleted
    /\ args.concurrent_games < Len(game_ids)
    /\ Reported = IdSet

\* C15: games are submitted in the order of game_ids, one per step of the
\* submission loop, and the loop never waits for a thread or for an earlier
\* game: while identifiers are left the next submission can happen, and the
\* games not yet started wait in the queue in source order.
SourceOrderUngated ==
    /\ [](/\ requests \o work_queue = SubSeq(game_ids, 1, next_submit - 1)
          /\ (pc = "submitting" => next_submit <= Len(game_ids) /\ ENABLED Submit))
    /\ [][next_submit' # next_submit =>
            /\ next_submit' = next_submit + 1
            /\ work_queue' = Append(work_queue, game_ids[next_submit])]_vars

\* Every game is submitted, every thread is busy, none has finished, and
\* the rest waits in the queue.
SourceOrderUngatedWitness ==
    /\ pc = "collecting"
    /\ next_submit - 1 = NumGames
    /\ Cardinality(Running) = args.concurrent_games
    /\ work_queue # <<>>
    /\ \A id \in AllIds : futures[id].state # "FINISHED"

\* C16: all_dfs, the failure log and the progress count change only in a
\* step of main's collection loop, one future at a time, and never in a step
\* of a call running on a pool thread; every future yielded is recorded
\* once, as a frame or as a failure, and none is lost.
AccumulatorChanged ==
    all_dfs' # all_dfs \/ warnings' # warnings \/ reported' # reported

CollectorOnly ==
    /\ [][AccumulatorChanged =>
            /\ pc = "collecting" /\ pc' = "collecting"
            /\ workers' = workers /\ futures' = futures /\ work_queue' = work_queue
            /\ Len(reported') = Len(reported) + 1
            /\ futures[reported'[Len(reported')]].state = "FINISHED"
            /\ Len(all_dfs') + Len(warnings') = Len(all_dfs) + Len(warnings) + 1]_vars
    /\ [](/\ \A id \in AllIds : Count(reported, id) <= 1
          /\ \A id \in Reported : Count(warnings, id) = (IF Succeeds(id) THEN 0 ELSE 1)
          /\ Len(all_dfs) = Cardinality({id \in Reported : Succeeds(id)})
          /\ Len(warnings) = Cardinality({id \in Reported : ~Succeeds(id)})
          /\ (RunCompleted => \A id \in IdSet : id \in Reported))

\* main has recorded the frame of a game while the call of another game is
\* still running on a pool thread.
CollectorOnlyWitness ==
    /\ Len(all_dfs) = 1
    /\ Len(reported) = 1
    /\ Running # {}
    /\ Running \cap Reported = {}

\* C17: in the table the rows of each game that succeeded form one block,
\* in the order of the document's plays and of the events within each play,
\* and the blocks are in the order in which main collected the games, for
\* every order of completion.
RowKey(row) == <<row.game_pk, row.at_bat_number, row.pitch_number, row.play_id>>

RECURSIVE TraversalKeys(_, _, _, _)
TraversalKeys(id, plays, p, e) ==
    IF p > Len(plays) THEN <<>>
    ELSE IF e > Len(plays[p].playEvents) THEN TraversalKeys(id, plays, p + 1, 1)
    ELSE (IF plays[p].playEvents[e].pitchNumber # Null /\ plays[p].playEvents[e].playId # Null
          THEN <<<<Some(id), plays[p].atBatIndex,
                   plays[p].playEvents[e].pitchNumber, plays[p].playEvents[e].playId>>>>
          ELSE <<>>)
         \o TraversalKeys(id, plays, p, e + 1)

RECURSIVE BlocksInOrder(_)
BlocksInOrder(ids) ==
    IF ids = <<>> THEN <<>>
    ELSE (IF Succeeds(Head(ids))
          THEN TraversalKeys(Head(ids), remote[Head(ids)].data.allPlays, 1, 1)
          ELSE <<>>)
         \o BlocksInOrder(Tail(ids))

BlocksInCollectionOrder ==
    /\ pc \in {"assembled", "saved"} =>
         [i \in 1..Len(Val(all_events_df).rows) |-> RowKey(Val(all_events_df).rows[i])]
             = BlocksInOrder(reported)
    /\ pc = "saved" =>
         [i \in 1..Len(written[1].rows) |-> RowKey(written[1].rows[i])] = BlocksInOrder(reported)

\* Game 2 was collected before game 1, both with rows, game 1 with rows of
\* two plays, and the table is written.
BlocksInCollectionOrderWitness ==
    /\ pc = "saved"
    /\ reported = <<2, 1>>
    /\ Len(futures[1].outcome.df.rows) >= 3
    /\ Len(futures[2].outcome.df.rows) >= 1
    /\ written[1].rows[1].game_pk = Some(2)

====
